---- MODULE Spec2Model ----
(***************************************************************************)
(* A model of flair/models/language_model.py (class LanguageModel): the    *)
(* autoregressive generator generate_text, the chunked sequence encoder    *)
(* get_representation and the checkpoint I/O (save, save_checkpoint,       *)
(* load_language_model, load_checkpoint).                                  *)
(*                                                                         *)
(* Text is a sequence of Unicode code points, bytes are a sequence of      *)
(* numbers below 256, Python's None of an optional value is the empty      *)
(* tuple << >> and a present value v is << v >>.  The recurrent stack is a *)
(* deterministic transition on (hidden state, character index): a hidden   *)
(* state is the sequence of indices fed since the default initial state,   *)
(* which is the most general such transition.                              *)
(***************************************************************************)
EXTENDS Integers, Sequences, FiniteSets, TLC

\* ------------------------------------------------------------------ bounds

MaxLength == 3
MaxPrefixLen == 2
MaxSuffixLen == 1
NumDraws == 2
ExpUnderflow == 6
MaxStrLen == 3
MaxChunk == 3
MaxBatch == 2
MaxSize == 2
MaxEpoch == 1
MaxLost == 2

\* ------------------------------------------------------------ text helpers

NL == 10
SP == 32
PrefixChars == {97, 233}
Inf == 1000
TempSet == {1, 2}
\* the least common multiple of TempSet: logits divided by a temperature are
\* kept exactly, in units of 1/TempLcm
TempLcm == 1 * 2
SuffixChars == {97, 233}
WeightIds == {1}

Reverse(s) == [k \in 1..Len(s) |-> s[Len(s) + 1 - k]]

EndsWith(s, suf) ==
    /\ Len(suf) <= Len(s)
    /\ SubSeq(s, Len(s) - Len(suf) + 1, Len(s)) = suf

Min2(a, b) == IF a < b THEN a ELSE b

\* Python's s[a:b] for 0 <= a, b: both ends are clamped to len(s).
Slice(s, a, b) == SubSeq(s, Min2(a, Len(s)) + 1, Min2(b, Len(s)))

SeqsUpTo(S, n) == UNION {[1..k -> S] : k \in 0..n}

RECURSIVE Utf8Encode(_)
Utf8Encode(s) ==
    IF s = << >> THEN << >>
    ELSE LET c == Head(s) IN
         (IF c < 128 THEN << c >>
          ELSE << 192 + (c \div 64), 128 + (c % 64) >>) \o Utf8Encode(Tail(s))

RECURSIVE Utf8Decode(_)
Utf8Decode(b) ==
    IF b = << >> THEN << >>
    ELSE IF Head(b) < 128 THEN << Head(b) >> \o Utf8Decode(Tail(b))
    ELSE << (Head(b) - 192) * 64 + (b[2] - 128) >> \o Utf8Decode(Tail(Tail(b)))

RECURSIVE SumTo(_, _)
SumTo(f, n) == IF n < 0 THEN 0 ELSE f[n] + SumTo(f, n - 1)

RECURSIVE Flatten(_)
Flatten(ss) == IF ss = << >> THEN << >> ELSE Head(ss) \o Flatten(Tail(ss))

\* -------------------------------------------------------------- Dictionary

idx2item == << <<10>>, <<32>>, <<97>>, <<195, 169>> >>

VocabSize == Len(idx2item)

item_of(idx) == idx2item[idx + 1]

get_idx_for_item(ch) ==
    IF \E i \in 0..(VocabSize - 1) : item_of(i) = Utf8Encode(<< ch >>)
    THEN CHOOSE i \in 0..(VocabSize - 1) : item_of(i) = Utf8Encode(<< ch >>)
    ELSE 0

get_idx_for_items(s) == [k \in 1..Len(s) |-> get_idx_for_item(s[k])]

\* ------------------------------------------------------------------- stack

init_hidden == << >>

\* The decoder's logit of vocabulary index v after the history h, for the
\* weights w.  Weights 1 overflow to +inf at one context.
Logit(w, h, v) ==
    IF w = 1 /\ v = 1 /\ Len(h) = 3 THEN Inf
    ELSE ((IF h = << >> THEN 0 ELSE h[Len(h)] + 1) * (v + 2) + Len(h) + w) % 5

\* forward(input, hidden) for one batch column, dropout being the identity.
forward(w, input, hidden) ==
    LET hs == [k \in 1..Len(input) |-> hidden \o SubSeq(input, 1, k)] IN
    [decoded |-> [k \in 1..Len(input) |-> [v \in 0..(VocabSize - 1) |-> Logit(w, hs[k], v)]],
     output  |-> hs,
     hidden  |-> hidden \o input]

\* ------------------------------------------------------------------- state

VARIABLES
    \* generate_text: the two calls of one comparison (a backward model on s,
    \* then a forward model with the same weights on reverse(s))
    gpc, call, is_forward_lm, state_dict, prefix_arg, number_of_characters,
    temperature, break_on_suffix, prefix, hidden, input, characters, log_prob,
    i, calls, draws, returned,
    \* get_representation: two calls on the same strings with two chunk widths
    rpc, rcall, rep_forward, strings, start_marker, end_marker, widths,
    padded_strings, splices, chunks, rhidden, batches, output_parts, outputs,
    \* checkpoint I/O
    cpc, model, file, lost, loaded

genVars == << gpc, call, is_forward_lm, state_dict, prefix_arg, number_of_characters,
              temperature, break_on_suffix, prefix, hidden, input, characters,
              log_prob, i, calls, draws, returned >>

repVars == << rpc, rcall, rep_forward, strings, start_marker, end_marker, widths,
              padded_strings, splices, chunks, rhidden, batches, output_parts, outputs >>

ckptVars == << cpc, model, file, lost, loaded >>

vars == << genVars, repVars, ckptVars >>

\* ----------------------------------------------------------- generate_text

\* prediction.div(temperature), in units of 1/TempLcm; inf / t = inf
DivTemperature(x, t) == IF x = Inf THEN Inf ELSE (x * TempLcm) \div t

MaxOf(f) == CHOOSE m \in {f[v] : v \in DOMAIN f} : \A v \in DOMAIN f : f[v] <= m

\* exp of a value <= 0 given in units of 1/TempLcm, as a float computes it:
\* a power of two, 0 once the result underflows
Exp(x) == IF x < -ExpUnderflow THEN 0 ELSE 2 ^ (ExpUnderflow + x)

\* torch.multinomial(word_weights, 1)[0] for the pinned draw u of 0..NumDraws-1:
\* the index whose cumulative weight interval holds the fraction u / NumDraws
Multinomial(word_weights, u) ==
    LET target == (u * SumTo(word_weights, VocabSize - 1)) \div NumDraws IN
    CHOOSE v \in 0..(VocabSize - 1) :
        /\ SumTo(word_weights, v) > target
        /\ \A x \in 0..(v - 1) : SumTo(word_weights, x) <= target

\* the log-probability contribution read from the temperature-scaled and
\* max-shifted prediction instead of the decoder's output
SampleStepScaled(w, inp, hid, t, u) ==
    LET r == forward(w, << inp >>, hid)
        decoder_output == r.decoded[1]
        divided == [v \in 0..(VocabSize - 1) |-> DivTemperature(decoder_output[v], t)]
        max == MaxOf(divided)
        fails == max = Inf
        prediction == [v \in 0..(VocabSize - 1) |-> divided[v] - max]
        word_weights == [v \in 0..(VocabSize - 1) |-> Exp(prediction[v])]
        word_idx == IF fails THEN 0 ELSE Multinomial(word_weights, u)
    IN [word_idx |-> word_idx, prob |-> prediction[word_idx], hidden |-> r.hidden,
        decoded |-> r.decoded]

\* One iteration of the sampling loop up to the sampled index and its
\* log-probability contribution.
SampleStep(w, inp, hid, t, u) ==
    LET r == forward(w, << inp >>, hid)
        decoder_output == r.decoded[1]
        divided == [v \in 0..(VocabSize - 1) |-> DivTemperature(decoder_output[v], t)]
        max == MaxOf(divided)
        \* inf - inf is NaN: multinomial raises and the bare except takes index 0
        fails == max = Inf
        prediction == [v \in 0..(VocabSize - 1) |-> divided[v] - max]
        word_weights == [v \in 0..(VocabSize - 1) |-> Exp(prediction[v])]
        word_idx == IF fails THEN 0 ELSE Multinomial(word_weights, u)
    IN [word_idx |-> word_idx, prob |-> decoder_output[word_idx], hidden |-> r.hidden,
        decoded |-> r.decoded]

\* the priming pass fed the whole prefix
PrimeInputWhole(p) == get_idx_for_items(p)

\* the priming pass's input: prefix[:-1]
PrimeInput(p) == get_idx_for_items(SubSeq(p, 1, Len(p) - 1))

\* a stop check that never stops
BreakOnSuffixNever(chars, suffix) == FALSE

\* break_on_suffix is not None and "".join(characters).endswith(break_on_suffix)
BreakOnSuffix(chars, suffix) ==
    /\ suffix # << >>
    /\ EndsWith(chars, suffix[1])

GenIdle ==
    /\ gpc = "idle" /\ call = 0 /\ is_forward_lm = FALSE /\ state_dict = 0
    /\ prefix_arg = << >> /\ number_of_characters = 0 /\ temperature = 1
    /\ break_on_suffix = << >> /\ prefix = << >> /\ hidden = init_hidden
    /\ input = 0 /\ characters = << >> /\ log_prob = 0 /\ i = 0
    /\ calls = << >> /\ draws = << >> /\ returned = << >>

GenInit ==
    /\ gpc = "call" /\ call = 1 /\ is_forward_lm = FALSE
    /\ state_dict \in WeightIds
    /\ prefix_arg \in SeqsUpTo(PrefixChars, MaxPrefixLen)
    /\ number_of_characters \in 0..MaxLength
    /\ temperature \in TempSet
    /\ break_on_suffix \in {<< >>} \cup {<< s >> : s \in SeqsUpTo(SuffixChars, MaxSuffixLen)}
    /\ prefix = << >> /\ hidden = init_hidden /\ input = 0 /\ characters = << >>
    /\ log_prob = 0 /\ i = 0 /\ calls = << >> /\ draws = << >> /\ returned = << >>

\* lines 307-316
GenerateEnter ==
    /\ gpc = "call"
    /\ prefix' = IF prefix_arg = << >> THEN << NL >> ELSE prefix_arg
    /\ characters' = << >>
    /\ hidden' = init_hidden
    /\ calls' = << >>
    /\ gpc' = "prime"
    /\ UNCHANGED << call, is_forward_lm, state_dict, prefix_arg, number_of_characters,
                    temperature, break_on_suffix, input, log_prob, i, draws, returned >>
    /\ UNCHANGED << repVars, ckptVars >>

\* lines 318-330, len(prefix) > 1
GeneratePrime ==
    /\ gpc = "prime"
    /\ Len(prefix) > 1
    /\ LET r == forward(state_dict, PrimeInput(prefix), hidden) IN
        /\ hidden' = r.hidden
        /\ calls' = Append(calls, [kind |-> "prime", input |-> PrimeInput(prefix),
                                   hidden_in |-> hidden, hidden_out |-> r.hidden,
                                   decoded |-> r.decoded])
    /\ gpc' = "input"
    /\ UNCHANGED << call, is_forward_lm, state_dict, prefix_arg, number_of_characters,
                    temperature, break_on_suffix, prefix, input, characters, log_prob,
                    i, draws, returned >>
    /\ UNCHANGED << repVars, ckptVars >>

\* line 318, len(prefix) <= 1
GenerateSkipPrime ==
    /\ gpc = "prime"
    /\ Len(prefix) <= 1
    /\ gpc' = "input"
    /\ UNCHANGED << call, is_forward_lm, state_dict, prefix_arg, number_of_characters,
                    temperature, break_on_suffix, prefix, hidden, input, characters,
                    log_prob, i, calls, draws, returned >>
    /\ UNCHANGED << repVars, ckptVars >>

\* lines 332-338
GenerateFirstInput ==
    /\ gpc = "input"
    /\ input' = get_idx_for_item(prefix[Len(prefix)])
    /\ log_prob' = 0
    /\ i' = 0
    /\ gpc' = "loop"
    /\ UNCHANGED << call, is_forward_lm, state_dict, prefix_arg, number_of_characters,
                    temperature, break_on_suffix, prefix, hidden, characters, calls,
                    draws, returned >>
    /\ UNCHANGED << repVars, ckptVars >>

\* lines 340-376: one iteration.  The i-th draw of a call is pinned: the second
\* call replays the draws of the first.
GenerateSample ==
    /\ gpc = "loop"
    /\ i < number_of_characters
    /\ \E u \in 0..(NumDraws - 1) :
        /\ i < Len(draws) => u = draws[i + 1]
        /\ draws' = IF i < Len(draws) THEN draws ELSE Append(draws, u)
        /\ LET s == SampleStep(state_dict, input, hidden, temperature, u)
               word == Utf8Decode(item_of(s.word_idx))
           IN
            /\ hidden' = s.hidden
            /\ calls' = Append(calls, [kind |-> "sample", input |-> << input >>,
                                       hidden_in |-> hidden, hidden_out |-> s.hidden,
                                       decoded |-> s.decoded])
            /\ log_prob' = log_prob + s.prob
            /\ input' = s.word_idx
            /\ characters' = characters \o word
            /\ i' = i + 1
            /\ gpc' = IF BreakOnSuffix(characters \o word, break_on_suffix)
                      THEN "finish" ELSE "loop"
    /\ UNCHANGED << call, is_forward_lm, state_dict, prefix_arg, number_of_characters,
                    temperature, break_on_suffix, prefix, returned >>
    /\ UNCHANGED << repVars, ckptVars >>

\* line 340: the range is exhausted
GenerateLoopExit ==
    /\ gpc = "loop"
    /\ i >= number_of_characters
    /\ gpc' = "finish"
    /\ UNCHANGED << call, is_forward_lm, state_dict, prefix_arg, number_of_characters,
                    temperature, break_on_suffix, prefix, hidden, input, characters,
                    log_prob, i, calls, draws, returned >>
    /\ UNCHANGED << repVars, ckptVars >>

\* lines 378-388 when a character was generated: log_prob is a tensor
GenerateReturn ==
    /\ gpc = "finish"
    /\ characters # << >>
    /\ LET text == prefix \o characters IN
        returned' = Append(returned,
            [ok |-> TRUE,
             text |-> Utf8Encode(IF is_forward_lm THEN text ELSE Reverse(text)),
             log_prob |-> << log_prob, Len(characters) >>])
    /\ gpc' = "returned"
    /\ UNCHANGED << call, is_forward_lm, state_dict, prefix_arg, number_of_characters,
                    temperature, break_on_suffix, prefix, hidden, input, characters,
                    log_prob, i, calls, draws >>
    /\ UNCHANGED << repVars, ckptVars >>

\* line 380 when no character was generated: log_prob is still the float 0.0,
\* which has no item(): AttributeError
GenerateRaise ==
    /\ gpc = "finish"
    /\ characters = << >>
    /\ returned' = Append(returned, [ok |-> FALSE, text |-> << >>, log_prob |-> << 0, 0 >>])
    /\ gpc' = "raised"
    /\ UNCHANGED << call, is_forward_lm, state_dict, prefix_arg, number_of_characters,
                    temperature, break_on_suffix, prefix, hidden, input, characters,
                    log_prob, i, calls, draws >>
    /\ UNCHANGED << repVars, ckptVars >>

\* The comparison's second call: the forward model with the same weights and
\* the same pinned draws, on the reversed prefix.
GenerateSecondCall ==
    /\ gpc \in {"returned", "raised"}
    /\ call = 1
    /\ call' = 2
    /\ is_forward_lm' = TRUE
    /\ prefix_arg' = Reverse(prefix_arg)
    /\ gpc' = "call"
    /\ UNCHANGED << state_dict, number_of_characters, temperature, break_on_suffix,
                    prefix, hidden, input, characters, log_prob, i, calls, draws,
                    returned >>
    /\ UNCHANGED << repVars, ckptVars >>

GenNext ==
    \/ GenerateEnter
    \/ GeneratePrime
    \/ GenerateSkipPrime
    \/ GenerateFirstInput
    \/ GenerateSample
    \/ GenerateLoopExit
    \/ GenerateReturn
    \/ GenerateRaise
    \/ GenerateSecondCall

\* ------------------------------------------------------ get_representation

\* the input strings: the strings "", "a", "a\'e", "a\'ea", ... of each length
StringOfLen(n) == [k \in 1..n |-> IF k % 2 = 1 THEN 97 ELSE 233]

Strings == {StringOfLen(n) : n \in 0..MaxStrLen}

\* Python's range(start, stop, step) for step >= 1
RangeSeq(start, stop, step) ==
    [k \in 1..(IF stop > start THEN (stop - start + step - 1) \div step ELSE 0)
        |-> start + (k - 1) * step]

\* len(max(xs, key=len))
LenLongest(xs) ==
    CHOOSE n \in {Len(xs[b]) : b \in DOMAIN xs} : \A b \in DOMAIN xs : Len(xs[b]) <= n

\* a range that includes its stop
SpliceEndsInclusive(chars_per_chunk, longest_padded_str) ==
    RangeSeq(chars_per_chunk, longest_padded_str + 1, chars_per_chunk)

\* line 155: the splice ends of every chunk but the last
SpliceEnds(chars_per_chunk, longest_padded_str) ==
    RangeSeq(chars_per_chunk, longest_padded_str, chars_per_chunk)

\* lines 152-161: the (splice_begin, splice_end) of every chunk
Splices(chars_per_chunk, longest_padded_str) ==
    LET ends == SpliceEnds(chars_per_chunk, longest_padded_str) IN
    [k \in 1..(Len(ends) + 1) |->
        << IF k = 1 THEN 0 ELSE ends[k - 1],
           IF k <= Len(ends) THEN ends[k] ELSE longest_padded_str >>]

\* a row left unpadded
PadToNothing(char_indices, len_longest_chunk) == char_indices

\* line 173: char_indices += [padding_char_index] * (len_longest_chunk - len(string))
PadTo(char_indices, len_longest_chunk) ==
    char_indices \o [k \in 1..(len_longest_chunk - Len(char_indices)) |-> get_idx_for_item(SP)]

\* every pass started from the default initial state
RepresentationPassFresh(batch, hid) ==
    [b \in DOMAIN batch |-> forward(0, batch[b], init_hidden)]

\* lines 183-184: self.forward(batch, hidden), column by column
RepresentationPass(batch, hid) ==
    [b \in DOMAIN batch |-> forward(0, batch[b], hid[b])]

ChunkWidth == widths[rcall]

RepIdle ==
    /\ rpc = "idle" /\ rcall = 1 /\ rep_forward = TRUE /\ strings = << >>
    /\ start_marker = << >> /\ end_marker = << >> /\ widths = << 1, 1 >>
    /\ padded_strings = << >> /\ splices = << >> /\ chunks = << >>
    /\ rhidden = << >> /\ batches = << >> /\ output_parts = << >> /\ outputs = << >>

RepInit ==
    /\ rpc = "pad" /\ rcall = 1
    /\ rep_forward \in BOOLEAN
    /\ strings \in UNION {[1..n -> Strings] : n \in 1..MaxBatch}
    /\ start_marker = << NL >>
    /\ end_marker = << SP >>
    /\ widths \in {w \in (1..MaxChunk) \X (1..MaxChunk) : w[1] # w[2]}
    /\ padded_strings = << >> /\ splices = << >> /\ chunks = << >>
    /\ rhidden = << >> /\ batches = << >> /\ output_parts = << >> /\ outputs = << >>

\* lines 139-149
RepPad ==
    /\ rpc = "pad"
    /\ padded_strings' =
        [b \in DOMAIN strings |->
            start_marker \o (IF rep_forward THEN strings[b] ELSE Reverse(strings[b]))
                         \o end_marker]
    /\ rpc' = "chunk"
    /\ UNCHANGED << rcall, rep_forward, strings, start_marker, end_marker, widths,
                    splices, chunks, rhidden, batches, output_parts, outputs >>
    /\ UNCHANGED << genVars, ckptVars >>

\* lines 151-162
RepChunk ==
    /\ rpc = "chunk"
    /\ LET longest_padded_str == LenLongest(strings) + Len(start_marker) + Len(end_marker)
           sp == Splices(ChunkWidth, longest_padded_str)
       IN
        /\ splices' = sp
        /\ chunks' = [k \in DOMAIN sp |->
                        [b \in DOMAIN padded_strings |->
                            Slice(padded_strings[b], sp[k][1], sp[k][2])]]
    /\ rhidden' = [b \in DOMAIN strings |-> init_hidden]
    /\ rpc' = "index"
    /\ UNCHANGED << rcall, rep_forward, strings, start_marker, end_marker, widths,
                    padded_strings, batches, output_parts, outputs >>
    /\ UNCHANGED << genVars, ckptVars >>

\* lines 164-179
RepIndex ==
    /\ rpc = "index"
    /\ batches' = [k \in DOMAIN chunks |->
                    [b \in DOMAIN chunks[k] |->
                        PadTo(get_idx_for_items(chunks[k][b]), LenLongest(chunks[k]))]]
    /\ output_parts' = << >>
    /\ rpc' = "forward"
    /\ UNCHANGED << rcall, rep_forward, strings, start_marker, end_marker, widths,
                    padded_strings, splices, chunks, rhidden, outputs >>
    /\ UNCHANGED << genVars, ckptVars >>

\* lines 182-185: one batch
RepForward ==
    /\ rpc = "forward"
    /\ Len(output_parts) < Len(batches)
    /\ LET r == RepresentationPass(batches[Len(output_parts) + 1], rhidden) IN
        /\ output_parts' = Append(output_parts, [b \in DOMAIN r |-> r[b].output])
        /\ rhidden' = [b \in DOMAIN r |-> r[b].hidden]
    /\ UNCHANGED << rpc, rcall, rep_forward, strings, start_marker, end_marker, widths,
                    padded_strings, splices, chunks, batches, outputs >>
    /\ UNCHANGED << genVars, ckptVars >>

\* lines 187-190
RepConcat ==
    /\ rpc = "forward"
    /\ Len(output_parts) = Len(batches)
    /\ outputs' = Append(outputs,
            [b \in DOMAIN strings |->
                Flatten([k \in DOMAIN output_parts |-> output_parts[k][b]])])
    /\ rpc' = "returned"
    /\ UNCHANGED << rcall, rep_forward, strings, start_marker, end_marker, widths,
                    padded_strings, splices, chunks, rhidden, batches, output_parts >>
    /\ UNCHANGED << genVars, ckptVars >>

\* the same strings again, with the other chunk width
RepSecondCall ==
    /\ rpc = "returned"
    /\ rcall = 1
    /\ rcall' = 2
    /\ rpc' = "pad"
    /\ UNCHANGED << rep_forward, strings, start_marker, end_marker, widths,
                    padded_strings, splices, chunks, rhidden, batches, output_parts,
                    outputs >>
    /\ UNCHANGED << genVars, ckptVars >>

RepNext ==
    \/ RepPad
    \/ RepChunk
    \/ RepIndex
    \/ RepForward
    \/ RepConcat
    \/ RepSecondCall

\* ----------------------------------------------------------- checkpoint I/O

ConfigKeys == {"dictionary", "is_forward_lm", "hidden_size", "nlayers",
               "embedding_size", "nout", "dropout"}
MetaKeys == {"epoch", "split", "loss", "optimizer_state_dict"}

\* lines 42-71: the shapes of the parameters the constructor creates
ParameterShapes(hidden_size, nlayers, embedding_size, nout, use_all_layers) ==
    LET output_embedding_size ==
            IF use_all_layers THEN hidden_size * nlayers ELSE hidden_size
    IN [encoder |-> << VocabSize, embedding_size >>,
        rnn |-> IF nlayers = 1
                THEN << << "rnn", embedding_size, hidden_size >> >>
                ELSE [l \in 1..nlayers |->
                        << "rnn.l", IF l = 1 THEN embedding_size ELSE hidden_size,
                           hidden_size >>],
        proj |-> IF nout # << >> THEN << << output_embedding_size, nout[1] >> >>
                 ELSE << >>,
        decoder |-> << IF nout # << >> THEN nout[1] ELSE output_embedding_size,
                       VocabSize >>]

\* lines 18-76: __init__; a new module is in training mode
LanguageModel(dictionary, fwd, hidden_size, nlayers, embedding_size, nout, dropout, use_all_layers) ==
    [dictionary |-> dictionary, is_forward_lm |-> fwd, dropout |-> dropout,
     hidden_size |-> hidden_size, embedding_size |-> embedding_size,
     nlayers |-> nlayers, use_all_layers |-> use_all_layers, nout |-> nout,
     state_dict |-> [shapes |-> ParameterShapes(hidden_size, nlayers, embedding_size,
                                                nout, use_all_layers),
                     values |-> "initial"],
     training |-> TRUE]

\* lines 286-295
SaveRecord(m) ==
    [k \in ConfigKeys \cup {"state_dict"} |-> m[k]]

\* lines 268-281
SaveCheckpointRecord(m, optimizer, epoch, split, loss) ==
    [k \in ConfigKeys \cup MetaKeys \cup {"state_dict"} |->
        CASE k = "optimizer_state_dict" -> optimizer
          [] k = "epoch" -> epoch
          [] k = "split" -> split
          [] k = "loss" -> loss
          [] OTHER -> m[k]]

\* lines 218-229 and 244-255: the model rebuilt from a record, or the error
\* raised on the way
Rebuild(state) ==
    IF ~(ConfigKeys \subseteq DOMAIN state) THEN [ok |-> FALSE, error |-> "KeyError"]
    ELSE LET m == LanguageModel(state["dictionary"], state["is_forward_lm"],
                                state["hidden_size"], state["nlayers"],
                                state["embedding_size"], state["nout"],
                                state["dropout"], TRUE)
         IN IF "state_dict" \notin DOMAIN state
            THEN [ok |-> FALSE, error |-> "KeyError"]
            \* load_state_dict is strict: every parameter's shape must match
            ELSE IF state["state_dict"].shapes # m.state_dict.shapes
            THEN [ok |-> FALSE, error |-> "RuntimeError"]
            ELSE [ok |-> TRUE,
                  model |-> [m EXCEPT !.state_dict = state["state_dict"],
                                      !.training = FALSE]]

\* line 237-242: state[k] if k in state else None
Optional(state, k) == IF k \in DOMAIN state THEN << state[k] >> ELSE << >>

NoMeta == [k \in MetaKeys |-> << >>]

CkptIdle ==
    /\ cpc = "idle" /\ model = << >> /\ file = << >> /\ lost = {} /\ loaded = << >>

CkptInit ==
    /\ cpc = "model"
    /\ \E fwd \in BOOLEAN, hidden_size \in 1..MaxSize, nlayers \in 1..MaxSize,
          nout \in {<< >>, << 4 >>}, use_all_layers \in BOOLEAN,
          training \in BOOLEAN, values \in {"initial", "trained"} :
        model = [LanguageModel("chars", fwd, hidden_size, nlayers, 3, nout, 5,
                               use_all_layers)
                 EXCEPT !.training = training, !.state_dict.values = values]
    /\ file = << >>
    /\ lost = {}
    /\ loaded = << >>

\* lines 285-297
Save ==
    /\ cpc = "model"
    /\ file' = SaveRecord(model)
    /\ cpc' = "file"
    /\ UNCHANGED << model, lost, loaded >>
    /\ UNCHANGED << genVars, repVars >>

\* lines 265-283
SaveCheckpoint ==
    /\ cpc = "model"
    /\ \E epoch \in 0..MaxEpoch :
        file' = SaveCheckpointRecord(model, "sgd", epoch, 7, 9)
    /\ cpc' = "file"
    /\ UNCHANGED << model, lost, loaded >>
    /\ UNCHANGED << genVars, repVars >>

\* A record written by another version or cut short lacks fields.
LoseField ==
    /\ cpc = "file"
    /\ Cardinality(lost) < MaxLost
    /\ \E k \in DOMAIN file :
        /\ file' = [x \in DOMAIN file \ {k} |-> file[x]]
        /\ lost' = lost \cup {k}
    /\ UNCHANGED << cpc, model, loaded >>
    /\ UNCHANGED << genVars, repVars >>

\* lines 213-231
LoadLanguageModel ==
    /\ cpc = "file"
    /\ LET r == Rebuild(file) IN
        loaded' = [via |-> "load", ok |-> r.ok,
                   error |-> IF r.ok THEN "" ELSE r.error,
                   model |-> IF r.ok THEN << r.model >> ELSE << >>,
                   meta |-> NoMeta]
    /\ cpc' = "loaded"
    /\ UNCHANGED << model, file, lost >>
    /\ UNCHANGED << genVars, repVars >>

\* lines 233-263
LoadCheckpoint ==
    /\ cpc = "file"
    /\ LET r == Rebuild(file) IN
        loaded' = [via |-> "load_checkpoint", ok |-> r.ok,
                   error |-> IF r.ok THEN "" ELSE r.error,
                   model |-> IF r.ok THEN << r.model >> ELSE << >>,
                   meta |-> IF r.ok THEN [k \in MetaKeys |-> Optional(file, k)]
                            ELSE NoMeta]
    /\ cpc' = "loaded"
    /\ UNCHANGED << model, file, lost >>
    /\ UNCHANGED << genVars, repVars >>

CkptNext ==
    \/ Save
    \/ SaveCheckpoint
    \/ LoseField
    \/ LoadLanguageModel
    \/ LoadCheckpoint

\* ---------------------------------------------------------- specifications

GenerateInit == GenInit /\ RepIdle /\ CkptIdle

RepresentInit == GenIdle /\ RepInit /\ CkptIdle

CheckpointInit == GenIdle /\ RepIdle /\ CkptInit

Init == GenerateInit \/ RepresentInit \/ CheckpointInit

Next == GenNext \/ RepNext \/ CkptNext

Spec == Init /\ [][Next]_vars

SpecGenerate == GenerateInit /\ [][GenNext]_vars

SpecRepresent == RepresentInit /\ [][RepNext]_vars

SpecCheckpoint == CheckpointInit /\ [][CkptNext]_vars

\* ------------------------------------------------------------------ claims

GenDone == gpc \in {"returned", "raised"}

\* the text the current call returned, as characters
TextChars == Utf8Decode(returned[Len(returned)].text)

\* the indices fed to the stack by the current call, in order
FedSeq == Flatten([k \in 1..Len(calls) |-> calls[k].input])

PrimeCalls == IF Len(prefix) > 1 THEN 1 ELSE 0

\* the sum over the generated characters of the decoder's logit of the
\* sampled index, read from what the stack returned to each SAMPLE step
RawLogitSum ==
    LET raw == [j \in 0..Len(characters) |->
                  IF j = 0 THEN 0
                  ELSE calls[PrimeCalls + j].decoded[1][get_idx_for_item(characters[j])]]
    IN SumTo(raw, Len(characters))

\* C2: for every non-empty prefix, every length n and every temperature,
\* generate without a stop_suffix returns a text of exactly len(prefix) + n
\* characters, for the forward and the backward model.
C2_GenerationLength ==
    (GenDone /\ prefix_arg # << >> /\ break_on_suffix = << >>)
        => /\ gpc = "returned"
           /\ Len(TextChars) = Len(prefix_arg) + number_of_characters

\* C3 as the spec states it, on the forward model (whose returned text is in
\* generation order) and a non-empty stop_suffix: a returned text shorter than
\* len(prefix) + length ends with stop_suffix and holds no earlier occurrence
\* of it.
C3_StopSuffixOriginal ==
    (/\ gpc = "returned" /\ is_forward_lm
     /\ break_on_suffix # << >> /\ break_on_suffix # << << >> >>
     /\ Len(TextChars) < Len(prefix) + number_of_characters)
        => /\ EndsWith(TextChars, break_on_suffix[1])
           /\ \A k \in 0..(Len(TextChars) - 1) :
                ~EndsWith(SubSeq(TextChars, 1, k), break_on_suffix[1])

\* C3 (amended): with a stop_suffix, the generated characters (the returned
\* text without the prefix, in generation order, that is before the reversal
\* of a backward model) of a text shorter than len(prefix) + length end with
\* stop_suffix, no shorter non-empty run of generated characters ends with
\* it, and generation never continues once the generated characters end with
\* stop_suffix.
C3_StopSuffix ==
    break_on_suffix # << >> =>
        /\ gpc = "loop" =>
            \A k \in 1..Len(characters) :
                ~EndsWith(SubSeq(characters, 1, k), break_on_suffix[1])
        /\ gpc \in {"finish", "returned"} =>
            \A k \in 1..(Len(characters) - 1) :
                ~EndsWith(SubSeq(characters, 1, k), break_on_suffix[1])
        /\ (gpc = "returned" /\ Len(TextChars) < Len(prefix) + number_of_characters) =>
            /\ EndsWith(characters, break_on_suffix[1])
            /\ TextChars = IF is_forward_lm THEN prefix \o characters
                           ELSE Reverse(prefix \o characters)

C3_Witness ==
    /\ gpc = "returned"
    /\ break_on_suffix # << >> /\ break_on_suffix # << << >> >>
    /\ Len(characters) >= 2
    /\ Len(characters) < number_of_characters

\* C4: a backward model M on s and a forward model F with the same weights
\* and the same pinned draws on reverse(s): generate(M, s) equals
\* reverse(generate(F, reverse(s))) character for character.
C4_DirectionSymmetry ==
    (call = 2 /\ gpc = "returned" /\ returned[1].ok)
        => Utf8Decode(returned[1].text) = Reverse(Utf8Decode(returned[2].text))

\* C9 as the spec states it: the characters fed are prefix[:-1] in one priming
\* pass, then prefix[-1], then every sampled character but the last (read when
\* the sampling loop has ended, before the result is built).
C9_FeedOrderOriginal ==
    gpc = "finish" =>
        FedSeq = PrimeInput(prefix)
                    \o << get_idx_for_item(prefix[Len(prefix)]) >>
                    \o get_idx_for_items(SubSeq(characters, 1, Len(characters) - 1))

\* C9 (amended): the hidden state starts at the default initial state and is
\* threaded from each forward pass into the next; the characters fed are, in
\* order and each once, prefix[:-1] in one priming pass (only when
\* len(prefix) > 1), then, only when length >= 1, prefix[-1] and each sampled
\* character but the last; the priming pass adds no character and no
\* log-probability.
C9_FeedOrder ==
    /\ \A k \in 1..Len(calls) :
        /\ calls[k].hidden_in = IF k = 1 THEN init_hidden ELSE calls[k - 1].hidden_out
        /\ k = Len(calls) /\ gpc # "call" => hidden = calls[k].hidden_out
    /\ gpc \in {"input", "loop", "finish", "returned", "raised"} =>
        /\ Len(calls) = PrimeCalls + Len(characters)
        /\ \A k \in 1..Len(calls) :
            calls[k].kind = IF k <= PrimeCalls THEN "prime" ELSE "sample"
        /\ PrimeCalls = 1 =>
            calls[1].input = get_idx_for_items(SubSeq(prefix, 1, Len(prefix) - 1))
        /\ \A j \in 1..Len(characters) : Len(calls[PrimeCalls + j].input) = 1
    /\ gpc = "input" => characters = << >>
    /\ (gpc = "loop" /\ i = 0) => (characters = << >> /\ log_prob = 0)
    /\ gpc \in {"finish", "returned", "raised"} =>
        /\ FedSeq = get_idx_for_items(SubSeq(prefix, 1, Len(prefix) - 1))
                      \o (IF number_of_characters >= 1
                          THEN << get_idx_for_item(prefix[Len(prefix)]) >>
                                 \o get_idx_for_items(
                                       SubSeq(characters, 1, Len(characters) - 1))
                          ELSE << >>)
        /\ (Len(characters) >= 1) <=> (number_of_characters >= 1)

C9_Witness ==
    /\ gpc = "returned"
    /\ Len(prefix) > 1
    /\ Len(characters) >= 2

\* C10 as the spec states it: for every length generate returns a pair whose
\* average_log_probability is the sum of the raw logits of the sampled indices
\* divided by the number of generated characters.
C10_AverageLogProbOriginal ==
    GenDone =>
        /\ gpc = "returned"
        /\ returned[Len(returned)].log_prob = << RawLogitSum, Len(characters) >>

\* C10 (amended): for every prefix, every length >= 1 and every temperature,
\* generate returns a pair (text, average_log_probability) whose
\* average_log_probability is the sum over the generated characters of the raw
\* logit of each sampled index, divided by the number of generated characters
\* (which is at least 1).
C10_AverageLogProb ==
    (GenDone /\ number_of_characters >= 1) =>
        /\ gpc = "returned"
        /\ Len(characters) >= 1
        /\ returned[Len(returned)].log_prob = << RawLogitSum, Len(characters) >>

C10_Witness ==
    /\ gpc = "returned"
    /\ temperature = 2
    /\ Len(characters) >= 2
    /\ RawLogitSum > 0

AllEqualLength == \A a, b \in DOMAIN strings : Len(strings[a]) = Len(strings[b])

LongestPadded == LenLongest(padded_strings)

PaddingRun(n) == [k \in 1..n |-> get_idx_for_item(SP)]

\* C5: for a single string and two chunk widths W1 # W2, the two calls of
\* represent produce the same representation at every position < len(s).
C5_ChunkInvariance ==
    (rcall = 2 /\ rpc = "returned" /\ Len(strings) = 1) =>
        \A pos \in 1..Len(strings[1]) :
            /\ pos <= Len(outputs[1][1])
            /\ pos <= Len(outputs[2][1])
            /\ outputs[1][1][pos] = outputs[2][1][pos]

C5_Witness ==
    /\ rcall = 2 /\ rpc = "returned" /\ Len(strings) = 1
    /\ Len(strings[1]) = 3
    /\ widths = << 1, 2 >>

\* C7: the windows are contiguous, non-overlapping, in increasing order and
\* cover [0, L) exactly, every window but the last has width chunk_width, every
\* slice is right-padded with the padding index to its window's longest
\* slice, the concatenated output has sequence length L and each string's row
\* is its padded string's indices followed by padding indices up to L.
C7_ChunkPartition ==
    rpc \in {"forward", "returned"} =>
        LET n == Len(splices) IN
        /\ n >= 1
        /\ Len(chunks) = n /\ Len(batches) = n
        /\ splices[1][1] = 0
        /\ splices[n][2] = LongestPadded
        /\ \A k \in 1..n :
            /\ splices[k][1] < splices[k][2]
            /\ splices[k][2] - splices[k][1] <= ChunkWidth
            /\ k < n => /\ splices[k][2] - splices[k][1] = ChunkWidth
                        /\ splices[k + 1][1] = splices[k][2]
            /\ \A b \in DOMAIN strings :
                LET slice == SubSeq(padded_strings[b],
                                    Min2(splices[k][1], Len(padded_strings[b])) + 1,
                                    Min2(splices[k][2], Len(padded_strings[b])))
                IN /\ Len(batches[k][b]) = splices[k][2] - splices[k][1]
                   /\ batches[k][b] = get_idx_for_items(slice)
                        \o PaddingRun(splices[k][2] - splices[k][1] - Len(slice))
        /\ \A b \in DOMAIN strings :
            Flatten([k \in 1..n |-> batches[k][b]])
                = get_idx_for_items(padded_strings[b])
                    \o PaddingRun(LongestPadded - Len(padded_strings[b]))
        /\ rpc = "returned" =>
            \A b \in DOMAIN strings : Len(outputs[Len(outputs)][b]) = LongestPadded

C7_Witness ==
    /\ rpc = "returned"
    /\ Len(strings) = 2
    /\ Len(strings[1]) < Len(strings[2])
    /\ Len(splices) >= 2
    /\ LongestPadded % ChunkWidth # 0

\* C8 as the spec states it: strings of equal length are processed as a single
\* chunk, whatever the chunk width.
C8_EqualLengthSingleChunk ==
    (rpc \in {"index", "forward", "returned"} /\ AllEqualLength) =>
        /\ Len(chunks) = 1
        /\ rpc = "returned" => Len(output_parts) = 1

\* C8 (amended): strings of equal length are processed as a single chunk (one
\* window, one forward pass) exactly when the padded length L is at most
\* chunk_width; otherwise in ceil(L / chunk_width) chunks, one forward pass
\* each.
C8_EqualLengthChunks ==
    (rpc \in {"index", "forward", "returned"} /\ AllEqualLength) =>
        /\ (Len(chunks) = 1) <=> (LongestPadded <= ChunkWidth)
        /\ Len(chunks) = (LongestPadded + ChunkWidth - 1) \div ChunkWidth
        /\ rpc = "returned" => Len(output_parts) = Len(chunks)

C8_Witness ==
    /\ rpc = "returned"
    /\ Len(strings) = 2
    /\ AllEqualLength
    /\ Len(chunks) = 1
    /\ LongestPadded = ChunkWidth

\* C1: load(save(model)) succeeds and yields a model whose every configuration
\* field, use_all_layers included, and whose weights equal the original's, in
\* inference mode.
C1_RoundTrip ==
    (cpc = "loaded" /\ loaded.via = "load" /\ lost = {}) =>
        /\ loaded.ok
        /\ \A f \in {"dictionary", "is_forward_lm", "hidden_size", "nlayers",
                    "embedding_size", "nout", "dropout", "use_all_layers",
                    "state_dict"} :
            loaded.model[1][f] = model[f]
        /\ ~loaded.model[1].training

\* C6: load_checkpoint on a record lacking any subset of the training-metadata
\* fields succeeds and returns the absent marker for exactly the missing
\* fields and the stored value for the others; load and load_checkpoint on a
\* record lacking a configuration field or state_dict fail and return no
\* model.
C6_CheckpointLoading ==
    cpc = "loaded" =>
        /\ (loaded.via = "load_checkpoint" /\ lost \subseteq MetaKeys) =>
            /\ loaded.ok
            /\ \A k \in MetaKeys :
                loaded.meta[k] = IF k \in DOMAIN file THEN << file[k] >> ELSE << >>
        /\ ~(lost \subseteq MetaKeys) =>
            /\ ~loaded.ok
            /\ loaded.model = << >>

====
